---- MODULE Spec2Model ----
(***************************************************************************)
(* Model of shuvomdhar/chess-game (src/src/App.jsx): the minimax search    *)
(* with alpha-beta cutoffs (aiBestMove), its evaluator (evaluateBoard),    *)
(* and the React component's event handlers and AI effect (BeautifulChess).*)
(*                                                                         *)
(* The Rules Engine (chess.js) is an external collaborator.  It is         *)
(* modelled here as chess on a reduced board (NumFiles x NumRanks) with    *)
(* the chess.js move-generation order, legality filter, undo log and       *)
(* game-over predicates; castling, en passant and the pawn double step do  *)
(* not exist on the reduced board.                                         *)
(*                                                                         *)
(* Scores: evaluateBoard adds 0.5 per legal move.  Every score of the      *)
(* model is the source's score times two, so that scores are integers.     *)
(***************************************************************************)
EXTENDS Integers, Sequences, FiniteSets, TLC

\* ------------------------------------------------------------------------
\* Rules Engine: the reduced board
\* ------------------------------------------------------------------------
FILES == <<"a", "b", "c">>
RANKS == <<"1", "2", "3", "4">>
NumFiles == Len(FILES)
NumRanks == Len(RANKS)

\* ------------------------------------------------------------------------
\* Rules Engine: board geometry
\* ------------------------------------------------------------------------
NumSquares == NumFiles * NumRanks
Squares == 0 .. (NumSquares - 1)
FileOf(sq) == sq % NumFiles
RankOf(sq) == sq \div NumFiles
SquareAt(f, r) == r * NumFiles + f
OnBoard(f, r) == f >= 0 /\ f < NumFiles /\ r >= 0 /\ r < NumRanks

NoPiece == [type |-> "none", color |-> "none"]
Pc(c, t) == [type |-> t, color |-> c]
Other(c) == IF c = "w" THEN "b" ELSE "w"
Abs(x) == IF x < 0 THEN -x ELSE x

\* chess.js scans the board from the top rank down, files left to right.
ScanOrder == [i \in 1 .. NumSquares |->
                SquareAt((i - 1) % NumFiles, NumRanks - 1 - ((i - 1) \div NumFiles))]

\* Offsets <<file delta, rank delta>> in chess.js order (PIECE_OFFSETS).
KnightOffsets == << <<-2, 1>>, <<-1, 2>>, <<1, 2>>, <<2, 1>>,
                    <<2, -1>>, <<1, -2>>, <<-1, -2>>, <<-2, -1>> >>
BishopOffsets == << <<-1, 1>>, <<1, 1>>, <<1, -1>>, <<-1, -1>> >>
RookOffsets == << <<0, 1>>, <<1, 0>>, <<0, -1>>, <<-1, 0>> >>
QueenOffsets == << <<-1, 1>>, <<0, 1>>, <<1, 1>>, <<1, 0>>,
                   <<1, -1>>, <<0, -1>>, <<-1, -1>>, <<-1, 0>> >>
Promotions == <<"n", "b", "r", "q">>

PawnDir(c) == IF c = "w" THEN 1 ELSE -1
LastRank(c) == IF c = "w" THEN NumRanks - 1 ELSE 0

\* ------------------------------------------------------------------------
\* Rules Engine: attacks
\* ------------------------------------------------------------------------
Sign(x) == IF x > 0 THEN 1 ELSE IF x < 0 THEN -1 ELSE 0

PathClear(board, s, t) ==
    LET df == FileOf(t) - FileOf(s)
        dr == RankOf(t) - RankOf(s)
        n  == IF Abs(df) > Abs(dr) THEN Abs(df) ELSE Abs(dr)
    IN \A k \in 1 .. (n - 1) :
          board[SquareAt(FileOf(s) + k * Sign(df), RankOf(s) + k * Sign(dr))] = NoPiece

\* The piece on s attacks square t.
Attacks(board, s, t) ==
    LET p  == board[s]
        df == FileOf(t) - FileOf(s)
        dr == RankOf(t) - RankOf(s)
    IN /\ s # t
       /\ CASE p.type = "p" -> dr = PawnDir(p.color) /\ Abs(df) = 1
            [] p.type = "n" -> {Abs(df), Abs(dr)} = {1, 2}
            [] p.type = "k" -> Abs(df) <= 1 /\ Abs(dr) <= 1
            [] p.type = "r" -> (df = 0 \/ dr = 0) /\ PathClear(board, s, t)
            [] p.type = "b" -> Abs(df) = Abs(dr) /\ PathClear(board, s, t)
            [] p.type = "q" -> (df = 0 \/ dr = 0 \/ Abs(df) = Abs(dr))
                               /\ PathClear(board, s, t)
            [] OTHER -> FALSE

Attacked(board, byColor, t) ==
    \E s \in Squares : board[s].color = byColor /\ Attacks(board, s, t)

KingSquares(board, c) == {s \in Squares : board[s] = Pc(c, "k")}

KingAttacked(board, c) ==
    \E k \in KingSquares(board, c) : Attacked(board, Other(c), k)

\* ------------------------------------------------------------------------
\* Rules Engine: move generation (chess.js _moves)
\* ------------------------------------------------------------------------
MkMove(board, from, to, promo) ==
    [color |-> board[from].color, from |-> from, to |-> to,
     piece |-> board[from].type, captured |-> board[to].type,
     promotion |-> promo]

\* The board after a move (no legality check).
ApplyToBoard(board, m) ==
    [board EXCEPT ![m.from] = NoPiece,
                  ![m.to] = IF m.promotion # "none"
                            THEN Pc(m.color, m.promotion)
                            ELSE board[m.from]]

\* The concatenation of the sequences ss[lo], ..., ss[hi], in order.
RECURSIVE ConcatRange(_, _, _)
ConcatRange(ss, lo, hi) ==
    IF lo > hi THEN <<>>
    ELSE IF lo = hi THEN ss[lo]
    ELSE LET mid == (lo + hi) \div 2
         IN ConcatRange(ss, lo, mid) \o ConcatRange(ss, mid + 1, hi)

Concat(ss) == ConcatRange(ss, 1, Len(ss))

\* Targets of a sliding piece along one direction, nearest first.
RECURSIVE Ray(_, _, _, _, _)
Ray(board, c, f, r, d) ==
    LET nf == f + d[1]
        nr == r + d[2]
    IN IF ~OnBoard(nf, nr) THEN <<>>
       ELSE LET t == SquareAt(nf, nr)
            IN IF board[t] = NoPiece THEN <<t>> \o Ray(board, c, nf, nr, d)
               ELSE IF board[t].color = c THEN <<>>
               ELSE <<t>>

\* Targets of a sliding piece: its rays in the order of its offsets.
SlideTargets(board, s, offs) ==
    Concat([i \in 1 .. Len(offs) |->
              Ray(board, board[s].color, FileOf(s), RankOf(s), offs[i])])

\* Targets of a knight or king: one step per offset, in the order of the offsets.
StepTargets(board, s, offs) ==
    LET step(i) ==
            LET nf == FileOf(s) + offs[i][1]
                nr == RankOf(s) + offs[i][2]
            IN IF OnBoard(nf, nr) /\ board[SquareAt(nf, nr)].color # board[s].color
               THEN <<SquareAt(nf, nr)>> ELSE <<>>
    IN Concat([i \in 1 .. Len(offs) |-> step(i)])

\* A pawn's target squares: the push first, then the two captures.
PawnTargets(board, s) ==
    LET c  == board[s].color
        f  == FileOf(s)
        r  == RankOf(s) + PawnDir(c)
        push == IF OnBoard(f, r) /\ board[SquareAt(f, r)] = NoPiece
                THEN <<SquareAt(f, r)>> ELSE <<>>
        cap(df) == IF OnBoard(f + df, r) /\ board[SquareAt(f + df, r)].color = Other(c)
                   THEN <<SquareAt(f + df, r)>> ELSE <<>>
    IN IF c = "w" THEN push \o cap(-1) \o cap(1)
       ELSE push \o cap(1) \o cap(-1)

\* A pawn's moves: one per target, four (one per promotion) on the last rank.
PawnMoves(board, s, ts) ==
    Concat([i \in 1 .. Len(ts) |->
              IF RankOf(ts[i]) = LastRank(board[s].color)
              THEN [j \in 1 .. Len(Promotions) |->
                      MkMove(board, s, ts[i], Promotions[j])]
              ELSE <<MkMove(board, s, ts[i], "none")>>])

PieceMoves(board, s) ==
    LET t == board[s].type
        plain(ts) == [j \in 1 .. Len(ts) |-> MkMove(board, s, ts[j], "none")]
    IN CASE t = "p" -> PawnMoves(board, s, PawnTargets(board, s))
         [] t = "n" -> plain(StepTargets(board, s, KnightOffsets))
         [] t = "k" -> plain(StepTargets(board, s, QueenOffsets))
         [] t = "b" -> plain(SlideTargets(board, s, BishopOffsets))
         [] t = "r" -> plain(SlideTargets(board, s, RookOffsets))
         [] t = "q" -> plain(SlideTargets(board, s, QueenOffsets))
         [] OTHER -> <<>>

IsLegal(board, m) == ~KingAttacked(ApplyToBoard(board, m), m.color)

\* The moves of ms that do not leave the mover's king attacked.
FilterLegal(board, ms) == SelectSeq(ms, LAMBDA m : IsLegal(board, m))

\* The legal moves of the pieces of colour turn, in the engine's scan order.
GenMoves(board, turn) ==
    Concat([i \in 1 .. NumSquares |->
              IF board[ScanOrder[i]].color = turn
              THEN FilterLegal(board, PieceMoves(board, ScanOrder[i]))
              ELSE <<>>])

\* chess.moves({ verbose: true }): the legal moves of the side to move.
Moves(ch) == GenMoves(ch.board, ch.turn)

\* chess.moves({ square: sq, verbose: true })
MovesFrom(ch, sq) ==
    IF ch.board[sq].color = ch.turn
    THEN FilterLegal(ch.board, PieceMoves(ch.board, sq))
    ELSE <<>>

\* ------------------------------------------------------------------------
\* Rules Engine: the position object (new Chess()), move, undo
\* ------------------------------------------------------------------------
\* chess.move(m) with a move of the engine's own enumeration: the move is
\* logged with the state it was made from, and the turn passes.
MakeMove(ch, m) ==
    [board |-> ApplyToBoard(ch.board, m),
     turn |-> Other(ch.turn),
     history |-> Append(ch.history, [move |-> m, board |-> ch.board, turn |-> ch.turn])]

\* chess.undo(): takes back the most recent move; nothing to do on an empty log.
UndoMove(ch) ==
    IF ch.history = <<>> THEN ch
    ELSE LET h == ch.history[Len(ch.history)]
         IN [board |-> h.board, turn |-> h.turn,
             history |-> SubSeq(ch.history, 1, Len(ch.history) - 1)]

\* The legal moves matching {from, to, promotion}, as chess.move(object) looks
\* them up; empty when the move is illegal (chess.move then throws).
MatchMoves(ms, from, to, promo) ==
    SelectSeq(ms, LAMBDA m : /\ m.from = from
                             /\ m.to = to
                             /\ (m.promotion = "none" \/ m.promotion = promo))

\* ------------------------------------------------------------------------
\* Rules Engine: game status
\* ------------------------------------------------------------------------
FiftyMovePlies == 100

InCheck(ch) == KingAttacked(ch.board, ch.turn)
isCheckmate(ch) == InCheck(ch) /\ Moves(ch) = <<>>
isStalemate(ch) == ~InCheck(ch) /\ Moves(ch) = <<>>

Occupied(board) == {s \in Squares : board[s] # NoPiece}
SquareColor(s) == (FileOf(s) + RankOf(s)) % 2

isInsufficientMaterial(ch) ==
    LET occ == Occupied(ch.board)
        bishops == {s \in occ : ch.board[s].type = "b"}
        knights == {s \in occ : ch.board[s].type = "n"}
    IN \/ Cardinality(occ) = 2
       \/ Cardinality(occ) = 3 /\ Cardinality(bishops) + Cardinality(knights) = 1
       \/ /\ Cardinality(occ) = Cardinality(bishops) + 2
          /\ \A s, t \in bishops : SquareColor(s) = SquareColor(t)

\* How often the current position (placement and side to move) has occurred.
PositionCount(ch) ==
    1 + Cardinality({i \in 1 .. Len(ch.history) :
                       ch.history[i].board = ch.board /\ ch.history[i].turn = ch.turn})

isThreefoldRepetition(ch) == PositionCount(ch) >= 3

\* Plies since the last capture or pawn move.
HalfMoves(history) ==
    LET resets == {i \in 1 .. Len(history) :
                     \/ history[i].move.piece = "p"
                     \/ history[i].move.captured # "none"}
        last == IF resets = {} THEN 0
                ELSE CHOOSE i \in resets : \A j \in resets : j <= i
    IN Len(history) - last

isDraw(ch) ==
    \/ HalfMoves(ch.history) >= FiftyMovePlies
    \/ isStalemate(ch)
    \/ isInsufficientMaterial(ch)
    \/ isThreefoldRepetition(ch)

isGameOver(ch) == isCheckmate(ch) \/ isStalemate(ch) \/ isDraw(ch)

\* isGameOver for a position whose legal moves ms are already enumerated:
\* checkmate or stalemate is "no legal move", the rest is isDraw.
GameOverWith(ch, ms) ==
    \/ ms = <<>>
    \/ isInsufficientMaterial(ch)
    \/ isThreefoldRepetition(ch)
    \/ HalfMoves(ch.history) >= FiftyMovePlies

\* ------------------------------------------------------------------------
\* evaluateBoard (scores are twice the source's)
\* ------------------------------------------------------------------------
Infinity == 1000000

PIECE_VALUES == [p |-> 100, n |-> 320, b |-> 330, r |-> 500, q |-> 900, k |-> 0]

\* A faulty variant of SignedValue: the colours are exchanged.
SignedValueFlipped(board, s) ==
    IF board[s] = NoPiece THEN 0
    ELSE IF board[s].color = "b" THEN PIECE_VALUES[board[s].type]
    ELSE -PIECE_VALUES[board[s].type]

\* The signed value of the piece on square s (0 for an empty square).
SignedValue(board, s) ==
    IF board[s] = NoPiece THEN 0
    ELSE IF board[s].color = "w" THEN PIECE_VALUES[board[s].type]
    ELSE -PIECE_VALUES[board[s].type]

\* The sum of the signed values over the squares lo .. hi.
RECURSIVE SumMaterial(_, _, _)
SumMaterial(board, lo, hi) ==
    IF lo > hi THEN 0
    ELSE IF lo = hi THEN SignedValue(board, lo)
    ELSE LET mid == (lo + hi) \div 2
         IN SumMaterial(board, lo, mid) + SumMaterial(board, mid + 1, hi)

\* A faulty variant of EvaluateWith: the mobility is added whichever side is
\* to move.
EvaluateWithMobilityAdded(ch, ms) ==
    2 * SumMaterial(ch.board, 0, NumSquares - 1) + Len(ms)

\* evaluateBoard for a position whose legal moves ms are already enumerated.
EvaluateWith(ch, ms) ==
    LET score == 2 * SumMaterial(ch.board, 0, NumSquares - 1)
        mobility == Len(ms)
    IN IF ch.turn = "w" THEN score + mobility ELSE score - mobility

evaluateBoard(ch) == EvaluateWith(ch, Moves(ch))

\* ------------------------------------------------------------------------
\* aiBestMove: move ordering, minimax with alpha-beta cutoffs, root loop
\* ------------------------------------------------------------------------
null == [color |-> "none", from |-> -1, to |-> -1, piece |-> "none",
         captured |-> "none", promotion |-> "none"]

\* The comparator of moves.sort: (b.captured ? 1 : 0) - (a.captured ? 1 : 0).
CaptureFlag(m) == IF m.captured # "none" THEN 1 ELSE 0
CompareMoves(a, b) == CaptureFlag(b) - CaptureFlag(a)

\* A faulty variant of InsertSorted, as an unstable sort would behave: m also
\* moves left past the elements that compare equal.
InsertSortedBeforeEqual(sorted, m) ==
    LET stops == {j \in 1 .. Len(sorted) : CompareMoves(sorted[j], m) < 0}
        k == IF stops = {} THEN 0
             ELSE CHOOSE j \in stops : \A x \in stops : x <= j
    IN SubSeq(sorted, 1, k) \o <<m>> \o SubSeq(sorted, k + 1, Len(sorted))

\* Array.prototype.sort is stable: an insertion sort with the comparator.
\* m moves left past every element that compares greater, and stops behind
\* the first one that does not.
InsertSorted(sorted, m) ==
    LET stops == {j \in 1 .. Len(sorted) : CompareMoves(sorted[j], m) <= 0}
        k == IF stops = {} THEN 0
             ELSE CHOOSE j \in stops : \A x \in stops : x <= j
    IN SubSeq(sorted, 1, k) \o <<m>> \o SubSeq(sorted, k + 1, Len(sorted))

RECURSIVE SortFrom(_, _, _)
SortFrom(ms, i, acc) ==
    IF i > Len(ms) THEN acc ELSE SortFrom(ms, i + 1, InsertSorted(acc, ms[i]))

SortMoves(ms) == SortFrom(ms, 1, <<>>)

\* The cutoff test of both loops.
Cutoff(alpha, beta) == beta <= alpha

\* ------------------------------------------------------------------------
\* aiBestMove: activation frames
\* ------------------------------------------------------------------------
\* One frame per call in progress.  kind is "root" for the body of aiBestMove
\* and "minimax" for a call of the inner function.  best is bestScore, maxEval
\* or minEval (for a leaf: the value of evaluateBoard), i is the index of the
\* loop's current move, brk is set when the loop was left by break.
\* entry (the position at the call) and cuts (the number of breaks taken in
\* the calls below) are history fields: no frame operation reads them.
\* A faulty variant of RootMoves: the moves of the pieces without the
\* engine's legality filter.
RootMovesPseudo(ch) ==
    SortMoves(Concat([i \in 1 .. NumSquares |->
                        IF ch.board[ScanOrder[i]].color = ch.turn
                        THEN PieceMoves(ch.board, ScanOrder[i])
                        ELSE <<>>]))

\* const moves = chess.moves({ verbose: true }); moves.sort(...)
RootMoves(ch) == SortMoves(Moves(ch))

\* A faulty variant of RootFrame: bestScore starts at 0 instead of -Infinity
\* or Infinity.
RootFrameZeroBest(ch, depth) ==
    LET isMaximizing == ch.turn = "w"
    IN [kind |-> "root", maximizing |-> isMaximizing, d |-> depth,
        alpha |-> -Infinity, beta |-> Infinity,
        best |-> 0,
        bestMove |-> null, moves |-> RootMoves(ch), i |-> 1,
        brk |-> FALSE, leaf |-> FALSE, entry |-> ch, cuts |-> 0]

\* aiBestMove at entry: isMaximizing, bestMove, bestScore and the sorted moves.
RootFrame(ch, depth) ==
    LET isMaximizing == ch.turn = "w"
    IN [kind |-> "root", maximizing |-> isMaximizing, d |-> depth,
        alpha |-> -Infinity, beta |-> Infinity,
        best |-> IF isMaximizing THEN -Infinity ELSE Infinity,
        bestMove |-> null, moves |-> RootMoves(ch), i |-> 1,
        brk |-> FALSE, leaf |-> FALSE, entry |-> ch, cuts |-> 0]

\* The frame of minimax(ch, d, alpha, beta, maximizing): a leaf when d = 0 or
\* the game is over, otherwise a loop over the sorted moves.
MinimaxFrame(ch, d, alpha, beta, maximizing) ==
    LET ms == Moves(ch)
        leaf == d = 0 \/ GameOverWith(ch, ms)
    IN [kind |-> "minimax", maximizing |-> maximizing, d |-> d,
        alpha |-> alpha, beta |-> beta,
        best |-> IF leaf THEN EvaluateWith(ch, ms)
                 ELSE IF maximizing THEN -Infinity ELSE Infinity,
        bestMove |-> null, moves |-> IF leaf THEN <<>> ELSE SortMoves(ms),
        i |-> 1, brk |-> FALSE, leaf |-> leaf, entry |-> ch, cuts |-> 0]

\* The call has nothing left to do but return.
Finished(f) == f.leaf \/ f.brk \/ f.i > Len(f.moves)

\* A faulty variant of LoopUpdate: the cutoff test runs before maxEval /
\* minEval is updated, so a loop left by break returns its previous best.
LoopUpdateCutFirst(f, evalScore) ==
    IF f.maximizing
    THEN LET alpha2 == IF evalScore > f.alpha THEN evalScore ELSE f.alpha
             cut == Cutoff(alpha2, f.beta)
         IN [f EXCEPT !.best = IF ~cut /\ evalScore > f.best THEN evalScore ELSE f.best,
                      !.alpha = alpha2, !.brk = cut,
                      !.i = IF cut THEN f.i ELSE f.i + 1]
    ELSE LET beta2 == IF evalScore < f.beta THEN evalScore ELSE f.beta
             cut == Cutoff(f.alpha, beta2)
         IN [f EXCEPT !.best = IF ~cut /\ evalScore < f.best THEN evalScore ELSE f.best,
                      !.beta = beta2, !.brk = cut,
                      !.i = IF cut THEN f.i ELSE f.i + 1]

\* The rest of a loop iteration of minimax once the child call returned
\* evalScore: maxEval / minEval, alpha / beta, and the cutoff test.
LoopUpdate(f, evalScore) ==
    IF f.maximizing
    THEN LET maxEval == IF evalScore > f.best THEN evalScore ELSE f.best
             alpha2 == IF evalScore > f.alpha THEN evalScore ELSE f.alpha
             cut == Cutoff(alpha2, f.beta)
         IN [f EXCEPT !.best = maxEval, !.alpha = alpha2, !.brk = cut,
                      !.i = IF cut THEN f.i ELSE f.i + 1]
    ELSE LET minEval == IF evalScore < f.best THEN evalScore ELSE f.best
             beta2 == IF evalScore < f.beta THEN evalScore ELSE f.beta
             cut == Cutoff(f.alpha, beta2)
         IN [f EXCEPT !.best = minEval, !.beta = beta2, !.brk = cut,
                      !.i = IF cut THEN f.i ELSE f.i + 1]

\* A faulty variant of RootUpdate: the comparison ignores isMaximizing.
RootUpdateMaxOnly(f, score) ==
    IF score > f.best
    THEN [f EXCEPT !.best = score, !.bestMove = f.moves[f.i], !.i = f.i + 1]
    ELSE [f EXCEPT !.i = f.i + 1]

\* A faulty variant of RootUpdate: the comparison is not strict, so a later
\* move with an equal score replaces the best one.
RootUpdateLastBest(f, score) ==
    IF (IF f.maximizing THEN score >= f.best ELSE score <= f.best)
    THEN [f EXCEPT !.best = score, !.bestMove = f.moves[f.i], !.i = f.i + 1]
    ELSE [f EXCEPT !.i = f.i + 1]

\* The rest of an iteration of the root loop once minimax returned score: the
\* move replaces the best one only on a strictly better score.
RootUpdate(f, score) ==
    IF (IF f.maximizing THEN score > f.best ELSE score < f.best)
    THEN [f EXCEPT !.best = score, !.bestMove = f.moves[f.i], !.i = f.i + 1]
    ELSE [f EXCEPT !.i = f.i + 1]

\* ------------------------------------------------------------------------
\* BeautifulChess: component state
\* ------------------------------------------------------------------------
VARIABLES
    chess,         \* the one Chess object (useState(() => new Chess()))
    boardKey,      \* render key, bumped by every handler that changes the position
    selected,      \* selected square, NoSquare for null
    legalMoves,    \* destinations shown for the selected square
    lastMove,      \* highlighted move, NoLastMove for null
    mode,          \* "hvh" | "hva"
    aiPlays,       \* "white" | "black"
    aiDepth,       \* 1 | 2 | 3
    gameOverInfo,  \* useMemo(..., [chess]): computed when the memo's deps change
    tasks,         \* AI tasks asleep in sleep(300), oldest first, each with the
                   \* aiDepth its closure captured
    stack,         \* the frames of the aiBestMove call in progress, root first
    ret,           \* <<r>>: minimax has returned r and its caller has not yet
                   \* resumed; <<>> otherwise
    results,       \* history: what each completed aiBestMove call returned
    aiLog,         \* history: what the step that led here was
    userActive,    \* environment: the user may still issue events
    keyLimit       \* environment: the value of boardKey up to which the session
                   \* is followed

MaxKey == 2
MaxTasks == 2
MaxCalls == 2

NoSquare == -1
NoLastMove == [from |-> NoSquare, to |-> NoSquare]
AiDepths == {1, 2, 3}

BoardOf(pl) ==
    [s \in Squares |-> IF \E x \in pl : x[1] = s
                       THEN (CHOOSE x \in pl : x[1] = s)[2] ELSE NoPiece]

\* new Chess() / chess.reset(): the starting position of the reduced board,
\* white to move, empty move log.
StartPosition ==
    [board |-> BoardOf({ <<SquareAt(0, 0), Pc("w", "k")>>,
                         <<SquareAt(1, 2), Pc("w", "p")>>,
                         <<SquareAt(1, 3), Pc("b", "k")>> }),
     turn |-> "w",
     history |-> <<>>]

TurnName(ch) == IF ch.turn = "w" THEN "white" ELSE "black"

\* The body of the gameOverInfo memo.
GameOverInfo(ch) ==
    IF ~isGameOver(ch) THEN "null"
    ELSE IF isCheckmate(ch)
         THEN (IF ch.turn = "w" THEN "Black wins by checkmate"
               ELSE "White wins by checkmate")
    ELSE IF isDraw(ch) THEN "Draw"
    ELSE IF isStalemate(ch) THEN "Stalemate"
    ELSE IF isThreefoldRepetition(ch) THEN "Draw by repetition"
    ELSE IF isInsufficientMaterial(ch) THEN "Draw by insufficient material"
    ELSE "Game over"

\* A faulty variant of AiShouldMove: the side comparison is inverted.
AiShouldMoveOtherSide(ch, md, ai) ==
    md = "hva" /\ TurnName(ch) # ai /\ ~GameOverWith(ch, Moves(ch))

\* The condition under which the AI effect starts a task.
AiShouldMove(ch, md, ai) ==
    md = "hva" /\ TurnName(ch) = ai /\ ~GameOverWith(ch, Moves(ch))

\* The AI effect, run after a render in which one of its deps (boardKey, mode,
\* aiPlays, aiDepth) changed: it starts a task that captures aiDepth, and it
\* has no cleanup, so tasks started earlier stay scheduled.
AiEffect(ts, ch, md, ai, dep) ==
    IF AiShouldMove(ch, md, ai) THEN Append(ts, dep) ELSE ts

\* map((m) => m.to)
Destinations(ms) == [i \in 1 .. Len(ms) |-> ms[i].to]

\* A faulty variant of HoldsThread: the search gives up the thread between
\* its steps, as a search made of awaited steps would.
HoldsThreadNever(stk) == FALSE

\* aiBestMove is a plain synchronous function and the task has no await after
\* sleep(300): from the moment the task resumes until it has applied its move
\* the JavaScript thread is its own, and no other callback runs.
HoldsThread(stk) == stk # <<>>

ThreadFree == ~HoldsThread(stack)

\* Values of aiLog.  An "applied" entry records the side that was to move and
\* whether the game was over when the task applied its move.
LogOf(step) == [step |-> step, side |-> "none", over |-> FALSE]
LogApplied(ch) == [step |-> "applied", side |-> TurnName(ch), over |-> isGameOver(ch)]

\* What every user event has in common: the thread is free, the user is
\* still there, and no search state is touched.
UserStep ==
    /\ ThreadFree
    /\ userActive
    /\ aiLog' = LogOf("user")
    /\ UNCHANGED <<stack, ret, results, userActive,
                   keyLimit>>

MountState ==
    /\ boardKey = 0
    /\ selected = NoSquare
    /\ legalMoves = <<>>
    /\ lastMove = NoLastMove
    /\ mode = "hvh"
    /\ aiPlays = "black"
    /\ gameOverInfo = GameOverInfo(StartPosition)
    /\ stack = <<>>
    /\ ret = <<>>
    /\ results = <<>>
    /\ aiLog = LogOf("user")
    /\ userActive = TRUE

Init ==
    /\ chess = StartPosition
    /\ aiDepth = 2
    /\ tasks = AiEffect(<<>>, StartPosition, "hvh", "black", 2)
    /\ keyLimit = MaxKey
    /\ MountState

\* ------------------------------------------------------------------------
\* BeautifulChess: event handlers
\* ------------------------------------------------------------------------
\* onSquareClick with nothing selected: select a piece of the human's colour.
ClickSelect(sq) ==
    LET piece == chess.board[sq]
        humanColor == IF mode = "hva"
                      THEN (IF aiPlays = "white" THEN "b" ELSE "w")
                      ELSE chess.turn
    IN /\ selected = NoSquare
       /\ IF piece # NoPiece /\ piece.color = humanColor
          THEN /\ selected' = sq
               /\ legalMoves' = Destinations(MovesFrom(chess, sq))
          ELSE UNCHANGED <<selected, legalMoves>>
       /\ UNCHANGED <<chess, boardKey, lastMove, tasks>>

\* onSquareClick with a square selected: try the move selected -> sq (a pawn
\* reaching the last rank promotes to a queen); on failure reselect or clear.
ClickMove(sq) ==
    LET movingPiece == chess.board[selected]
        needsPromotion == /\ movingPiece.type = "p"
                          /\ RankOf(sq) = LastRank(movingPiece.color)
        found == MatchMoves(Moves(chess), selected, sq,
                            IF needsPromotion THEN "q" ELSE "none")
        piece == chess.board[sq]
    IN /\ selected # NoSquare
       /\ IF found # <<>>
          THEN /\ boardKey < keyLimit
               /\ chess' = MakeMove(chess, found[1])
               /\ lastMove' = [from |-> found[1].from, to |-> found[1].to]
               /\ selected' = NoSquare
               /\ legalMoves' = <<>>
               /\ boardKey' = boardKey + 1
               /\ tasks' = AiEffect(tasks, chess', mode, aiPlays, aiDepth)
          ELSE /\ IF piece # NoPiece /\ movingPiece # NoPiece
                     /\ piece.color = movingPiece.color
                  THEN /\ selected' = sq
                       /\ legalMoves' = Destinations(MovesFrom(chess, sq))
                  ELSE /\ selected' = NoSquare
                       /\ legalMoves' = <<>>
               /\ UNCHANGED <<chess, boardKey, lastMove, tasks>>

\* A faulty variant of onSquareClick: the test that returns on the AI's turn
\* in Human-vs-AI mode is missing.
onSquareClickNoTurnGuard(sq) ==
    /\ gameOverInfo = "null"
    /\ \/ ClickSelect(sq)
       \/ ClickMove(sq)
    /\ Len(tasks') <= MaxTasks
    /\ UserStep
    /\ UNCHANGED <<mode, aiPlays, aiDepth, gameOverInfo>>

onSquareClick(sq) ==
    /\ gameOverInfo = "null"
    /\ ~(mode = "hva" /\ TurnName(chess) = aiPlays)
    /\ \/ ClickSelect(sq)
       \/ ClickMove(sq)
    /\ Len(tasks') <= MaxTasks
    /\ UserStep
    /\ UNCHANGED <<mode, aiPlays, aiDepth, gameOverInfo>>

reset ==
    /\ boardKey < keyLimit
    /\ chess' = StartPosition
    /\ selected' = NoSquare
    /\ legalMoves' = <<>>
    /\ lastMove' = NoLastMove
    /\ boardKey' = boardKey + 1
    /\ tasks' = AiEffect(tasks, chess', mode, aiPlays, aiDepth)
    /\ Len(tasks') <= MaxTasks
    /\ UserStep
    /\ UNCHANGED <<mode, aiPlays, aiDepth, gameOverInfo>>

\* A faulty variant of undo: the selection is not cleared.
undoKeepsSelection ==
    /\ boardKey < keyLimit
    /\ chess' = UndoMove(chess)
    /\ boardKey' = boardKey + 1
    /\ tasks' = AiEffect(tasks, chess', mode, aiPlays, aiDepth)
    /\ Len(tasks') <= MaxTasks
    /\ UserStep
    /\ UNCHANGED <<selected, legalMoves, lastMove, mode, aiPlays, aiDepth,
                   gameOverInfo>>

undo ==
    /\ boardKey < keyLimit
    /\ chess' = UndoMove(chess)
    /\ selected' = NoSquare
    /\ legalMoves' = <<>>
    /\ boardKey' = boardKey + 1
    /\ tasks' = AiEffect(tasks, chess', mode, aiPlays, aiDepth)
    /\ Len(tasks') <= MaxTasks
    /\ UserStep
    /\ UNCHANGED <<lastMove, mode, aiPlays, aiDepth, gameOverInfo>>

\* The Game Mode select.
setMode(v) ==
    /\ v # mode
    /\ mode' = v
    /\ tasks' = AiEffect(tasks, chess, v, aiPlays, aiDepth)
    /\ Len(tasks') <= MaxTasks
    /\ UserStep
    /\ UNCHANGED <<chess, boardKey, selected, legalMoves, lastMove, aiPlays,
                   aiDepth, gameOverInfo>>

\* The "AI plays" select, rendered in Human-vs-AI mode only.
setAiPlays(v) ==
    /\ mode = "hva"
    /\ v # aiPlays
    /\ aiPlays' = v
    /\ tasks' = AiEffect(tasks, chess, mode, v, aiDepth)
    /\ Len(tasks') <= MaxTasks
    /\ UserStep
    /\ UNCHANGED <<chess, boardKey, selected, legalMoves, lastMove, mode,
                   aiDepth, gameOverInfo>>

\* The "AI depth" select, rendered in Human-vs-AI mode only.
setAiDepth(v) ==
    /\ mode = "hva"
    /\ v # aiDepth
    /\ aiDepth' = v
    /\ tasks' = AiEffect(tasks, chess, mode, aiPlays, v)
    /\ Len(tasks') <= MaxTasks
    /\ UserStep
    /\ UNCHANGED <<chess, boardKey, selected, legalMoves, lastMove, mode,
                   aiPlays, gameOverInfo>>

\* The user stops issuing events.
userLeaves ==
    /\ userActive
    /\ userActive' = FALSE
    /\ UNCHANGED <<chess, boardKey, selected, legalMoves, lastMove, mode,
                   aiPlays, aiDepth, gameOverInfo, tasks, stack, ret, results,
                   aiLog, keyLimit>>

\* ------------------------------------------------------------------------
\* BeautifulChess: the AI task's choice of move
\* ------------------------------------------------------------------------
\* const best = aiBestMove(chess, aiDepth) || chess.moves({ verbose: true })[0]
BestOrFirst(move, ch) ==
    IF move # null THEN move
    ELSE IF Moves(ch) # <<>> THEN Moves(ch)[1]
    ELSE null

\* ------------------------------------------------------------------------
\* aiBestMove step by step: one action per call, return and loop iteration
\* ------------------------------------------------------------------------
Top(stk) == stk[Len(stk)]
Pop(stk) == SubSeq(stk, 1, Len(stk) - 1)
SetTop(stk, f) == [stk EXCEPT ![Len(stk)] = f]

\* The variables no step of the search touches.
SearchFrame ==
    /\ aiLog' = LogOf("search")
    /\ UNCHANGED <<boardKey, selected, legalMoves, lastMove, mode, aiPlays,
                   aiDepth, gameOverInfo, tasks, results, userActive,
                   keyLimit>>

\* A faulty variant of RootEnter: minimax is given the root's isMaximizing
\* instead of the flag of the side to move after the move.
RootEnterRootFlag ==
    /\ Len(stack) = 1
    /\ ret = <<>>
    /\ ~Finished(Top(stack))
    /\ LET f == Top(stack)
           ch1 == MakeMove(chess, f.moves[f.i])
       IN /\ chess' = ch1
          /\ stack' = Append(stack, MinimaxFrame(ch1, f.d - 1, -Infinity, Infinity,
                                                 f.maximizing))
    /\ ret' = <<>>
    /\ SearchFrame

\* Root loop: chess.move(m), then the call of minimax with the full window.
RootEnter ==
    /\ Len(stack) = 1
    /\ ret = <<>>
    /\ ~Finished(Top(stack))
    /\ LET f == Top(stack)
           ch1 == MakeMove(chess, f.moves[f.i])
       IN /\ chess' = ch1
          /\ stack' = Append(stack, MinimaxFrame(ch1, f.d - 1, -Infinity, Infinity,
                                                 ch1.turn = "w"))
    /\ ret' = <<>>
    /\ SearchFrame

\* A faulty variant of RootResume: the root loop does not undo its move.
RootResumeNoUndo ==
    /\ Len(stack) = 1
    /\ ret # <<>>
    /\ chess' = chess
    /\ LET f2 == RootUpdate(Top(stack), ret[1].score)
       IN stack' = SetTop(stack, [f2 EXCEPT !.cuts = Top(stack).cuts + ret[1].cuts])
    /\ ret' = <<>>
    /\ SearchFrame

\* Root loop: chess.undo(), then the comparison with bestScore.
RootResume ==
    /\ Len(stack) = 1
    /\ ret # <<>>
    /\ chess' = UndoMove(chess)
    /\ LET f2 == RootUpdate(Top(stack), ret[1].score)
       IN stack' = SetTop(stack, [f2 EXCEPT !.cuts = Top(stack).cuts + ret[1].cuts])
    /\ ret' = <<>>
    /\ SearchFrame

\* A faulty variant of LoopEnter: the recursive call is given depth instead
\* of depth - 1.
LoopEnterSameDepth ==
    /\ Len(stack) > 1
    /\ ret = <<>>
    /\ ~Finished(Top(stack))
    /\ LET f == Top(stack)
           ch1 == MakeMove(chess, f.moves[f.i])
       IN /\ chess' = ch1
          /\ stack' = Append(stack, MinimaxFrame(ch1, f.d, f.alpha, f.beta,
                                                 ~f.maximizing))
    /\ ret' = <<>>
    /\ SearchFrame

\* A loop of minimax: ch.move(m), then the recursive call.
LoopEnter ==
    /\ Len(stack) > 1
    /\ ret = <<>>
    /\ ~Finished(Top(stack))
    /\ LET f == Top(stack)
           ch1 == MakeMove(chess, f.moves[f.i])
       IN /\ chess' = ch1
          /\ stack' = Append(stack, MinimaxFrame(ch1, f.d - 1, f.alpha, f.beta,
                                                 ~f.maximizing))
    /\ ret' = <<>>
    /\ SearchFrame

\* A faulty variant of LoopResume: the cutoff test precedes ch.undo(), so a
\* loop left by break leaves its move on the board.
LoopResumeBreakFirst ==
    /\ Len(stack) > 1
    /\ ret # <<>>
    /\ LET f == Top(stack)
           f2 == LoopUpdate(f, ret[1].score)
       IN /\ chess' = IF f2.brk THEN chess ELSE UndoMove(chess)
          /\ stack' = SetTop(stack, [f2 EXCEPT !.cuts = f.cuts + ret[1].cuts
                                                        + IF f2.brk THEN 1 ELSE 0])
    /\ ret' = <<>>
    /\ SearchFrame

\* A faulty variant of LoopResume: ch.undo() is called only where the move
\* changed maxEval / minEval.
LoopResumeUndoOnImprove ==
    /\ Len(stack) > 1
    /\ ret # <<>>
    /\ LET f == Top(stack)
           f2 == LoopUpdate(f, ret[1].score)
       IN /\ chess' = IF f2.best # f.best THEN UndoMove(chess) ELSE chess
          /\ stack' = SetTop(stack, [f2 EXCEPT !.cuts = f.cuts + ret[1].cuts
                                                        + IF f2.brk THEN 1 ELSE 0])
    /\ ret' = <<>>
    /\ SearchFrame

\* A loop of minimax: ch.undo(), then maxEval / minEval, alpha / beta and the
\* cutoff test.
LoopResume ==
    /\ Len(stack) > 1
    /\ ret # <<>>
    /\ LET f == Top(stack)
           f2 == LoopUpdate(f, ret[1].score)
       IN /\ chess' = UndoMove(chess)
          /\ stack' = SetTop(stack, [f2 EXCEPT !.cuts = f.cuts + ret[1].cuts
                                                        + IF f2.brk THEN 1 ELSE 0])
    /\ ret' = <<>>
    /\ SearchFrame

\* minimax returns: evaluateBoard(ch) at a leaf, maxEval / minEval after the
\* loop or after break.
MinimaxReturn ==
    /\ Len(stack) > 1
    /\ ret = <<>>
    /\ Finished(Top(stack))
    /\ LET f == Top(stack)
       IN ret' = << [score |-> f.best, entry |-> f.entry, cut |-> f.brk,
                     cuts |-> f.cuts] >>
    /\ stack' = Pop(stack)
    /\ UNCHANGED chess
    /\ SearchFrame

\* ------------------------------------------------------------------------
\* aiBestMove as a function: call it on a position, take what it returns
\* ------------------------------------------------------------------------
SearchCall ==
    /\ stack = <<>>
    /\ Len(results) < MaxCalls
    /\ stack' = <<RootFrame(chess, aiDepth)>>
    /\ UNCHANGED <<chess, ret>>
    /\ SearchFrame

\* return bestMove
SearchReturn ==
    /\ Len(stack) = 1
    /\ ret = <<>>
    /\ Finished(Top(stack))
    /\ LET f == Top(stack)
       IN results' = Append(results, [move |-> f.bestMove, score |-> f.best,
                                      depth |-> f.d, entry |-> f.entry,
                                      exit |-> chess, cuts |-> f.cuts])
    /\ stack' = <<>>
    /\ aiLog' = LogOf("search")
    /\ UNCHANGED <<chess, ret, boardKey, selected, legalMoves, lastMove, mode,
                   aiPlays, aiDepth, gameOverInfo, tasks, userActive,
                   keyLimit>>

\* ------------------------------------------------------------------------
\* BeautifulChess: the AI task, step by step
\* ------------------------------------------------------------------------
\* sleep(300) is over: the task resumes and calls aiBestMove(chess, aiDepth)
\* with the aiDepth it captured.
AiTaskWake ==
    /\ ThreadFree
    /\ tasks # <<>>
    /\ boardKey < keyLimit
    /\ stack' = <<RootFrame(chess, Head(tasks))>>
    /\ tasks' = Tail(tasks)
    /\ aiLog' = LogOf("search")
    /\ UNCHANGED <<chess, ret, boardKey, selected, legalMoves, lastMove, mode,
                   aiPlays, aiDepth, gameOverInfo, results, userActive,
                   keyLimit>>

\* aiBestMove has returned: best = bestMove || moves[0]; if (best) the move is
\* applied, the state is set, and the resulting render runs the effect.
AiTaskApply ==
    /\ Len(stack) = 1
    /\ ret = <<>>
    /\ Finished(Top(stack))
    /\ LET best == BestOrFirst(Top(stack).bestMove, chess)
       IN IF best # null
          THEN /\ chess' = MakeMove(chess, best)
               /\ lastMove' = [from |-> best.from, to |-> best.to]
               /\ selected' = NoSquare
               /\ legalMoves' = <<>>
               /\ boardKey' = boardKey + 1
               /\ tasks' = AiEffect(tasks, chess', mode, aiPlays, aiDepth)
               /\ aiLog' = LogApplied(chess)
          ELSE /\ aiLog' = LogOf("idle")
               /\ UNCHANGED <<chess, boardKey, selected, legalMoves, lastMove, tasks>>
    /\ stack' = <<>>
    /\ UNCHANGED <<ret, mode, aiPlays, aiDepth, gameOverInfo, results, userActive,
                   keyLimit>>

\* ------------------------------------------------------------------------
\* Positions handed to aiBestMove
\* ------------------------------------------------------------------------
\* The position after the moves <<from, to>> of path, played from ch.
RECURSIVE Play(_, _)
Play(ch, path) ==
    IF path = <<>> THEN ch
    ELSE Play(MakeMove(ch, MkMove(ch.board, path[1][1], path[1][2], "none")),
              Tail(path))

\* White mates with Rc2-c4 and can instead take the pawn with Rc2xb2.
MateOrCapture ==
    [board |-> BoardOf({ <<SquareAt(0, 3), Pc("b", "k")>>,
                         <<SquareAt(0, 1), Pc("w", "k")>>,
                         <<SquareAt(2, 1), Pc("w", "r")>>,
                         <<SquareAt(1, 1), Pc("b", "p")>> }),
     turn |-> "w",
     history |-> <<>>]

\* Black is checkmated.
Checkmated == Play(MateOrCapture, << <<SquareAt(2, 1), SquareAt(2, 3)>> >>)

\* White has no legal move and is not in check.
Stalemated ==
    [board |-> BoardOf({ <<SquareAt(0, 0), Pc("w", "k")>>,
                         <<SquareAt(1, 1), Pc("b", "r")>>,
                         <<SquareAt(2, 2), Pc("b", "k")>> }),
     turn |-> "w",
     history |-> <<>>]

\* King against king: drawn by insufficient material, with legal moves.
BareKings ==
    [board |-> BoardOf({ <<SquareAt(0, 0), Pc("w", "k")>>,
                         <<SquareAt(2, 3), Pc("b", "k")>> }),
     turn |-> "w",
     history |-> <<>>]

\* Black to move, with a rook against a pawn.
BlackToMove ==
    [board |-> BoardOf({ <<SquareAt(2, 0), Pc("w", "k")>>,
                         <<SquareAt(0, 1), Pc("w", "p")>>,
                         <<SquareAt(0, 3), Pc("b", "k")>>,
                         <<SquareAt(1, 3), Pc("b", "r")>> }),
     turn |-> "b",
     history |-> <<>>]

\* The starting position for the third time: drawn by repetition, with legal
\* moves.
Shuffle ==
    << <<SquareAt(0, 0), SquareAt(1, 0)>>, <<SquareAt(1, 3), SquareAt(2, 2)>>,
       <<SquareAt(1, 0), SquareAt(0, 0)>>, <<SquareAt(2, 2), SquareAt(1, 3)>> >>

Repeated == Play(StartPosition, Shuffle \o Shuffle)

\* White has several moves with the best score.
TiedForWhite ==
    [board |-> BoardOf({ <<SquareAt(0, 0), Pc("b", "k")>>,
                         <<SquareAt(0, 1), Pc("w", "p")>>,
                         <<SquareAt(2, 1), Pc("w", "k")>> }),
     turn |-> "w",
     history |-> <<>>]

\* Black has several moves with the best score.
TiedForBlack ==
    [board |-> BoardOf({ <<SquareAt(0, 0), Pc("b", "k")>>,
                         <<SquareAt(0, 2), Pc("w", "p")>>,
                         <<SquareAt(2, 2), Pc("w", "k")>> }),
     turn |-> "b",
     history |-> <<>>]

SearchInputs ==
    {StartPosition, MateOrCapture, Checkmated, Stalemated, BareKings,
     BlackToMove, Repeated, TiedForWhite, TiedForBlack}

\* ------------------------------------------------------------------------
\* Specifications
\* ------------------------------------------------------------------------
vars == <<chess, boardKey, selected, legalMoves, lastMove, mode, aiPlays,
          aiDepth, gameOverInfo, tasks, stack, ret, results, aiLog, userActive,
                   keyLimit>>

\* The session: user events and the steps of the AI tasks.
Next ==
    \/ \E sq \in Squares : onSquareClick(sq)
    \/ reset
    \/ undo
    \/ \E v \in {"hvh", "hva"} : setMode(v)
    \/ \E v \in {"white", "black"} : setAiPlays(v)
    \/ \E v \in AiDepths : setAiDepth(v)
    \/ AiTaskWake
    \/ RootEnter
    \/ RootResume
    \/ LoopEnter
    \/ LoopResume
    \/ MinimaxReturn
    \/ AiTaskApply

Spec == Init /\ [][Next]_vars

\* A step of an AI task.
AiTaskStep ==
    \/ AiTaskWake
    \/ RootEnter
    \/ RootResume
    \/ LoopEnter
    \/ LoopResume
    \/ MinimaxReturn
    \/ AiTaskApply

\* The session in which the user may stop issuing events, every timer set by
\* sleep(300) fires, and a task that has resumed runs on.
FairNext == Next \/ userLeaves

\* A task has something to do: it is in aiBestMove, or its timer is set and the
\* thread is free.  This is ENABLED <<AiTaskStep>>_vars: AiTaskWake needs a
\* timer and the free thread, the guards of the six steps of a running task
\* cover every state with a frame on the stack, and each step changes tasks,
\* stack or ret.
TaskRunnable == stack # <<>> \/ (tasks # <<>> /\ boardKey < keyLimit)

\* Weak fairness of AiTaskStep, WF_vars(AiTaskStep), with its ENABLED written
\* as the state predicate TaskRunnable.
TaskFairness == []<>(~TaskRunnable) \/ []<><<AiTaskStep>>_vars

FairSpec == Init /\ [][FairNext]_vars /\ TaskFairness

\* aiBestMove called MaxCalls times in a row on a position of SearchInputs.
SearchInit ==
    /\ chess \in SearchInputs
    /\ aiDepth \in AiDepths
    /\ tasks = <<>>
    /\ keyLimit = MaxKey
    /\ MountState

SearchNext ==
    \/ SearchCall
    \/ RootEnter
    \/ RootResume
    \/ LoopEnter
    \/ LoopResume
    \/ MinimaxReturn
    \/ SearchReturn

SearchSpec == SearchInit /\ [][SearchNext]_vars

\* ------------------------------------------------------------------------
\* Properties of aiBestMove (SearchSpec)
\* ------------------------------------------------------------------------
IsLegalIn(m, ch) == \E i \in 1 .. Len(Moves(ch)) : Moves(ch)[i] = m

Calls == 1 .. Len(results)

\* C1: at every return of minimax, also after a break, and when aiBestMove
\* returns, the position (board, side to move, move log) is the one the call
\* was entered with.
C1_PositionRestored ==
    /\ ret # <<>> => chess = ret[1].entry
    /\ \A k \in Calls : results[k].exit = results[k].entry

\* A minimax that left its loop by break has returned, and the position is
\* the one it was called with.
C1_Witness == ret # <<>> /\ ret[1].cut /\ chess = ret[1].entry

\* The search with the cutoffs removed: the value of a position is the
\* maximum (minimum) of the values of all its successors.
RECURSIVE PlainMinimax(_, _, _)
PlainMinimax(ch, d, maximizing) ==
    LET ms == Moves(ch)
    IN IF d = 0 \/ GameOverWith(ch, ms) THEN EvaluateWith(ch, ms)
       ELSE LET vals == {PlainMinimax(MakeMove(ch, ms[i]), d - 1, ~maximizing) :
                           i \in 1 .. Len(ms)}
            IN IF maximizing THEN CHOOSE v \in vals : \A w \in vals : w <= v
               ELSE CHOOSE v \in vals : \A w \in vals : v <= w

\* The plain search's score of every root move, in the captures-first order.
PlainScores(ch, depth) ==
    LET ms == SortMoves(Moves(ch))
    IN [i \in 1 .. Len(ms) |->
          PlainMinimax(MakeMove(ch, ms[i]), depth - 1, ch.turn = "b")]

\* The plain search's choice: the first root move with the best score.
PlainBest(ch, depth) ==
    LET ms == SortMoves(Moves(ch))
        sc == PlainScores(ch, depth)
        better(a, b) == IF ch.turn = "w" THEN a > b ELSE a < b
    IN IF ms = <<>> THEN [move |-> null, score |-> IF ch.turn = "w" THEN -Infinity
                                                   ELSE Infinity]
       ELSE LET i == CHOOSE i \in 1 .. Len(ms) :
                        /\ \A j \in 1 .. Len(ms) : ~better(sc[j], sc[i])
                        /\ \A j \in 1 .. (i - 1) : better(sc[i], sc[j])
            IN [move |-> ms[i], score |-> sc[i]]

\* C2: the score the search with cutoffs gives each root move, and the move
\* and score it returns, are those of the plain search with the same move
\* ordering.
C2_AlphaBetaEqualsPlain ==
    /\ (Len(stack) = 1 /\ ret # <<>>) =>
          ret[1].score = PlainMinimax(chess, stack[1].d - 1, chess.turn = "w")
    /\ stack = <<>> =>
          \A k \in Calls :
             LET plain == PlainBest(results[k].entry, results[k].depth)
             IN /\ results[k].move = plain.move
                /\ results[k].score = plain.score

\* A search in which a loop was left by break has returned a move.
C2_Witness ==
    \E k \in Calls : results[k].cuts > 0 /\ results[k].move # null

\* C3: a move returned by aiBestMove is one of the legal moves of the position
\* it was called on; from the starting position at depth 1 a move is returned.
C3_ReturnedMoveIsLegal ==
    \A k \in Calls :
       /\ results[k].move # null => IsLegalIn(results[k].move, results[k].entry)
       /\ (results[k].entry = StartPosition /\ results[k].depth = 1) =>
             results[k].move # null

\* A call on the starting position at depth 1 has returned a legal move.
C3_Witness ==
    \E k \in Calls : /\ results[k].entry = StartPosition
                     /\ results[k].depth = 1
                     /\ IsLegalIn(results[k].move, StartPosition)

\* C4 as stated: aiBestMove returns null exactly when the game is over, drawn
\* positions that still have legal moves included.
C4_NullIffGameOver ==
    \A k \in Calls : results[k].move = null <=> isGameOver(results[k].entry)

\* C4 as amended: aiBestMove returns null exactly when the position has no
\* legal move (checkmate or stalemate).
C4_NullIffNoLegalMove ==
    \A k \in Calls : results[k].move = null <=> Moves(results[k].entry) = <<>>

\* A call on a stalemate position has returned null.
C4_Witness ==
    \E k \in Calls : results[k].move = null /\ isStalemate(results[k].entry)

\* The side to move can give checkmate in one move.
HasMateInOne(ch) ==
    \E i \in 1 .. Len(Moves(ch)) : isCheckmate(MakeMove(ch, Moves(ch)[i]))

\* C5: when the side to move can give checkmate in one move, the move
\* aiBestMove returns gives checkmate.
C5_MateInOneIsPlayed ==
    \A k \in Calls :
       HasMateInOne(results[k].entry) =>
          /\ results[k].move # null
          /\ isCheckmate(MakeMove(results[k].entry, results[k].move))

\* C10: aiBestMove called again on the position it was just called on returns
\* the same move with the same score.
C10_SameResultTwice ==
    \A j, k \in Calls : /\ results[j].move = results[k].move
                        /\ results[j].score = results[k].score

\* Two calls in a row have returned, the first of them a move.
C10_Witness == Len(results) >= 2 /\ results[1].move # null

\* ------------------------------------------------------------------------
\* Properties of the session (Spec, FairSpec)
\* ------------------------------------------------------------------------
\* C6: an AI task applies a move only in Human-vs-AI mode, for the AI's side,
\* in a game that is not over.
C6_AiMovesOnlyOnItsTurn ==
    aiLog.step = "applied" =>
       mode = "hva" /\ aiLog.side = aiPlays /\ ~aiLog.over

\* C7: no AI task is started while another one is asleep or running.
C7_OneTaskAtATime ==
    Len(tasks) + (IF stack # <<>> THEN 1 ELSE 0) <= 1

\* C8: no user event happens between an AI task's call of aiBestMove and its
\* application of the move: a state reached by a user event has no search in
\* progress, so no search move is on the board.
C8_NoEventDuringSearch ==
    aiLog.step = "user" => stack = <<>> /\ ret = <<>>

\* A search is two calls deep, with moves applied and not yet undone, while
\* the user is there and another task is asleep.
C8_Witness ==
    /\ Len(stack) >= 3
    /\ Len(chess.history) > Len(stack[1].entry.history)
    /\ userActive
    /\ tasks # <<>>

\* It is the AI's turn in a game that is not over, no task is running, and
\* the user issues no further events.
AiTurnPending ==
    /\ ~userActive
    /\ stack = <<>>
    /\ boardKey < keyLimit
    /\ mode = "hva"
    /\ TurnName(chess) = aiPlays
    /\ ~isGameOver(chess)

\* An AI task has just applied a move for the AI's side.
AiMoveApplied ==
    aiLog.step = "applied" /\ aiLog.side = aiPlays /\ mode = "hva"

\* C9: when it is the AI's turn and the user issues no further events, a move
\* for the AI's side is eventually applied.
C9_AiTurnIsServed == AiTurnPending ~> AiMoveApplied

\* After the user's last event an AI task has applied a move for the AI's side.
C9_Witness == ~userActive /\ AiMoveApplied

\* ------------------------------------------------------------------------
\* Properties of the root's choice and of the move ordering (SearchSpec)
\* ------------------------------------------------------------------------
\* The root moves of a completed call whose score is the returned score.
BestIndexes(r) ==
    LET sc == PlainScores(r.entry, r.depth)
    IN {i \in DOMAIN sc : sc[i] = r.score}

\* C11: among the root moves with the best score aiBestMove returns the one
\* that comes first in the captures-first root move list; a later move with
\* an equal score does not replace it.
C11_FirstBestMoveKept ==
    \A k \in Calls :
       LET r == results[k]
           ms == SortMoves(Moves(r.entry))
       IN r.move # null =>
             \E i \in BestIndexes(r) :
                /\ r.move = ms[i]
                /\ \A j \in BestIndexes(r) : i <= j

\* A call has returned the first of several root moves with the best score.
C11_Witness ==
    \E k \in Calls :
       /\ Cardinality(BestIndexes(results[k])) >= 2
       /\ \E i \in BestIndexes(results[k]) :
             /\ results[k].move = SortMoves(Moves(results[k].entry))[i]
             /\ \A j \in BestIndexes(results[k]) : i <= j

IsCapture(m) == m.captured # "none"

\* The frames of the search in progress that loop over a move list.
LoopFrames == {n \in 1 .. Len(stack) : ~stack[n].leaf}

\* C12: at the root and at every node of the search the ordered move list is
\* the engine's move list with the capturing moves, in their order, put
\* before the other moves, in their order.
C12_StablePartition ==
    \A n \in LoopFrames :
       LET in == Moves(stack[n].entry)
       IN stack[n].moves = SelectSeq(in, IsCapture)
                             \o SelectSeq(in, LAMBDA m : ~IsCapture(m))

\* A node of the search whose ordering moved a capture in front of moves the
\* engine lists before it, with several moves left in the second group.
C12_Witness ==
    \E n \in LoopFrames :
       LET in == Moves(stack[n].entry)
       IN /\ stack[n].moves # in
          /\ Len(SelectSeq(in, IsCapture)) >= 1
          /\ Len(SelectSeq(in, LAMBDA m : ~IsCapture(m))) >= 2

\* ------------------------------------------------------------------------
\* evaluateBoard as a function: positions reached by play, evaluated, given
\* a further white queen and evaluated again
\* ------------------------------------------------------------------------
MaxEvalPlies == 2

\* The variables no step of EvalSpec touches.
EvalFrame ==
    UNCHANGED <<boardKey, selected, legalMoves, lastMove, mode, aiPlays,
                aiDepth, gameOverInfo, tasks, stack, ret, aiLog, userActive,
                   keyLimit>>

\* chess.move(m) for a legal move m, before the first evaluation.
EvalMove ==
    /\ results = <<>>
    /\ Len(chess.history) < MaxEvalPlies
    /\ \E i \in 1 .. Len(Moves(chess)) : chess' = MakeMove(chess, Moves(chess)[i])
    /\ UNCHANGED results
    /\ EvalFrame

\* evaluateBoard(chess)
EvalCall ==
    /\ Len(results) < 2
    /\ IF results = <<>> THEN TRUE ELSE results[Len(results)].pos # chess
    /\ results' = Append(results, [pos |-> chess, score |-> evaluateBoard(chess)])
    /\ UNCHANGED chess
    /\ EvalFrame

\* q is p with one more white queen, on a square that is empty in p.
ExtraWhiteQueen(p, q) ==
    \E sq \in Squares :
       /\ p.board[sq] = NoPiece
       /\ q = [p EXCEPT !.board[sq] = Pc("w", "q")]

\* The evaluated position gets a further white queen on an empty square; the
\* side that is not to move is not left in check.
PlaceQueen ==
    /\ Len(results) = 1
    /\ results[1].pos = chess
    /\ \E q \in {[chess EXCEPT !.board[sq] = Pc("w", "q")] : sq \in Squares} :
          /\ ExtraWhiteQueen(chess, q)
          /\ ~KingAttacked(q.board, Other(q.turn))
          /\ chess' = q
    /\ UNCHANGED results
    /\ EvalFrame

EvalInit ==
    /\ chess \in SearchInputs
    /\ aiDepth = 2
    /\ tasks = <<>>
    /\ keyLimit = MaxKey
    /\ MountState

EvalNext ==
    \/ EvalMove
    \/ EvalCall
    \/ PlaceQueen

EvalSpec == EvalInit /\ [][EvalNext]_vars

\* ------------------------------------------------------------------------
\* Properties of evaluateBoard (EvalSpec).  Scores are the source's times two.
\* ------------------------------------------------------------------------
\* C13: of two positions that differ only by one more white queen, the one
\* with the queen has the strictly greater evaluateBoard, whichever side is to
\* move.
C13_ExtraQueenScoresHigher ==
    \A j, k \in Calls :
       ExtraWhiteQueen(results[j].pos, results[k].pos) =>
          results[k].score > results[j].score

\* Both positions are evaluated with black to move, and the queen has changed
\* the number of black's legal moves.
C13_Witness ==
    /\ Len(results) = 2
    /\ ExtraWhiteQueen(results[1].pos, results[2].pos)
    /\ results[1].pos.turn = "b"
    /\ Len(Moves(results[1].pos)) # Len(Moves(results[2].pos))
    /\ results[2].score > results[1].score

\* The number of pieces of colour c and type t.
CountOf(board, c, t) == Cardinality({s \in Squares : board[s] = Pc(c, t)})

\* The material term, type by type: white's pieces count positive, black's
\* negative.
MaterialTerm(board) ==
      100 * (CountOf(board, "w", "p") - CountOf(board, "b", "p"))
    + 320 * (CountOf(board, "w", "n") - CountOf(board, "b", "n"))
    + 330 * (CountOf(board, "w", "b") - CountOf(board, "b", "b"))
    + 500 * (CountOf(board, "w", "r") - CountOf(board, "b", "r"))
    + 900 * (CountOf(board, "w", "q") - CountOf(board, "b", "q"))
    +   0 * (CountOf(board, "w", "k") - CountOf(board, "b", "k"))

\* C14: evaluateBoard is the material term plus 0.5 per legal move of the
\* side to move, added when white is to move and subtracted when black is.
C14_MaterialPlusMobility ==
    \A k \in Calls :
       LET p == results[k].pos
           n == Len(Moves(p))
       IN results[k].score =
             2 * MaterialTerm(p.board) + (IF p.turn = "w" THEN n ELSE -n)

\* A position with black to move, legal moves and unequal material has been
\* evaluated.
C14_Witness ==
    \E k \in Calls :
       /\ results[k].pos.turn = "b"
       /\ Moves(results[k].pos) # <<>>
       /\ MaterialTerm(results[k].pos.board) # 0

\* ------------------------------------------------------------------------
\* Properties of what the component shows (Spec)
\* ------------------------------------------------------------------------
\* The component is rendered between callbacks, never inside aiBestMove.
Rendered == stack = <<>>

\* C15: in every rendered state gameOverInfo is set exactly when the game is
\* over (checkmate, stalemate or draw).
C15_GameOverShown ==
    Rendered => (gameOverInfo # "null" <=> isGameOver(chess))

\* The origin and destination of the most recent move of the move log.
LastOfHistory(ch) ==
    IF ch.history = <<>> THEN NoLastMove
    ELSE [from |-> ch.history[Len(ch.history)].move.from,
          to |-> ch.history[Len(ch.history)].move.to]

\* C16: in every rendered state lastMove is null when the move log is empty
\* and otherwise the origin and destination of its most recent move.
C16_LastMoveShown ==
    Rendered => lastMove = LastOfHistory(chess)

\* ------------------------------------------------------------------------
\* The session of a human who plays, switches the mode and presses Undo,
\* followed for MaxUndoKey changes of the position (UndoSpec)
\* ------------------------------------------------------------------------
MaxUndoKey == 3

UndoInit ==
    /\ chess = StartPosition
    /\ aiDepth = 2
    /\ tasks = AiEffect(<<>>, StartPosition, "hvh", "black", 2)
    /\ keyLimit = MaxUndoKey
    /\ MountState

UndoNext ==
    \/ \E sq \in Squares : onSquareClick(sq)
    \/ undo
    \/ \E v \in {"hvh", "hva"} : setMode(v)
    \/ AiTaskStep

UndoSpec == UndoInit /\ [][UndoNext]_vars

\* The colour the human plays in Human-vs-AI mode.
HumanColor == IF aiPlays = "white" THEN "b" ELSE "w"

\* The moves of the move log that the human's side made.
HumanPlies(ch) == {n \in 1 .. Len(ch.history) : ch.history[n].turn = HumanColor}

\* The position before the most recent move of the human's side.
BeforeHumanMove(ch) ==
    LET n == CHOOSE x \in HumanPlies(ch) : \A y \in HumanPlies(ch) : y <= x
    IN [board |-> ch.history[n].board, turn |-> ch.history[n].turn,
        history |-> SubSeq(ch.history, 1, n - 1)]

\* The human presses Undo on their own turn in Human-vs-AI mode, right after
\* the AI has answered a move of theirs.
HumanUndoes ==
    /\ undo
    /\ mode = "hva"
    /\ TurnName(chess) # aiPlays
    /\ HumanPlies(chess) # {}
    /\ aiLog.step = "applied"
    /\ aiLog.side = aiPlays

\* C17: when the human presses Undo on their own turn in Human-vs-AI mode,
\* the position becomes the one before the human's last move, with the human
\* to move.  (AI tasks only add moves, so a position that is further on after
\* the press cannot settle there.)
C17_UndoTakesBackHumanMove ==
    [][HumanUndoes => chess' = BeforeHumanMove(chess)]_vars

\* ------------------------------------------------------------------------
\* The AI task invoked out of turn (Spec)
\* ------------------------------------------------------------------------
\* An AI task resumes from its sleep while the game is over or while it is not
\* the AI's side that is to move.
InvokedOutOfTurn ==
    /\ AiTaskWake
    /\ (isGameOver(chess) \/ TurnName(chess) # aiPlays)

\* C18: an AI task that resumes while the game is over, or while it is not the
\* AI's turn, reports the violation: it ends in an error state and starts no
\* search.
C18_OutOfTurnIsReported ==
    [][InvokedOutOfTurn => (aiLog'.step = "error" /\ stack' = <<>>)]_vars

\* ------------------------------------------------------------------------
\* The moves in flight during one call of aiBestMove (SearchSpec)
\* ------------------------------------------------------------------------
\* The number of moves on the move log when the running call was entered.
BaseLen == Len(stack[1].entry.history)

\* The moves the running call has applied and not yet undone, oldest first.
InFlight == SubSeq(chess.history, BaseLen + 1, Len(chess.history))

\* The calls whose loop has a move applied: every call but the innermost,
\* and the innermost too while the value returned to it waits for its undo.
Applying == Len(stack) - 1 + (IF ret # <<>> THEN 1 ELSE 0)

\* The moves in flight are one path from P: the log of P is below them, there
\* is one per call that has a move applied, each is the move its call's loop
\* is at and was made in the position its call was entered with, and there
\* are at most d of them.
SinglePath ==
    stack # <<>> =>
        /\ Len(chess.history) >= BaseLen
        /\ SubSeq(chess.history, 1, BaseLen) = stack[1].entry.history
        /\ Len(InFlight) = Applying
        /\ Len(InFlight) <= stack[1].d
        /\ \A n \in 1 .. Len(InFlight) :
              /\ InFlight[n].move = stack[n].moves[stack[n].i]
              /\ InFlight[n].board = stack[n].entry.board
              /\ InFlight[n].turn = stack[n].entry.turn

\* A step that takes a move off the log takes off the last one, and only it.
UndoesLastApplied ==
    Len(chess'.history) < Len(chess.history) =>
        chess'.history = SubSeq(chess.history, 1, Len(chess.history) - 1)

\* A step that applies a move does so in the position its call was entered
\* with: whatever the call applied before has been undone, subtree and all.
AppliesAfterUndo ==
    (stack # <<>> /\ Len(chess'.history) > Len(chess.history)) =>
        /\ chess = Top(stack).entry
        /\ ret = <<>>
        /\ chess'.history = Append(chess.history, chess'.history[Len(chess'.history)])

\* C19: within one call aiBestMove(P, d) the moves applied and not yet undone
\* form one path from P of at most d moves; every undo removes the move
\* applied last; and a sibling is applied only once the previous sibling and
\* its subtree have been undone.
C19_StackDiscipline ==
    /\ []SinglePath
    /\ [][UndoesLastApplied /\ AppliesAfterUndo]_vars

\* A call of depth 3 has three moves in flight, and at each of its two outer
\* levels an earlier sibling has already been explored and undone.
C19_Witness ==
    /\ Len(stack) >= 3
    /\ stack[1].d = 3
    /\ Len(chess.history) - Len(stack[1].entry.history) = 3
    /\ stack[1].i > 1
    /\ stack[2].i > 1

\* ------------------------------------------------------------------------
\* Termination of aiBestMove (SearchFairSpec)
\* ------------------------------------------------------------------------
\* A step of SearchNext is possible: a call is running, or one more may be made.
SearchRunnable == stack # <<>> \/ Len(results) < MaxCalls

\* A call that has been made runs on: JavaScript runs a synchronous function
\* to completion.  This is weak fairness of SearchNext, WF_vars(SearchNext),
\* with SearchRunnable written in place of ENABLED <<SearchNext>>_vars.
SearchFairness == []<>(~SearchRunnable) \/ []<><<SearchNext>>_vars

SearchFairSpec == SearchInit /\ [][SearchNext]_vars /\ SearchFairness

\* Each nested call has one ply less to go than its caller and never less
\* than none, a call with none to go is a leaf, and so the calls nest at most
\* d deep below aiBestMove(P, d).
DepthDecreases ==
    /\ \A n \in 1 .. Len(stack) - 1 :
          stack[n + 1].d = stack[n].d - 1 /\ stack[n + 1].d >= 0
    /\ \A n \in 2 .. Len(stack) : stack[n].d = 0 => stack[n].leaf
    /\ stack # <<>> => stack[1].d >= 1 /\ Len(stack) <= stack[1].d + 1

\* A loop that goes on after a move goes on with the next move of its list,
\* or it is left by break: no move of a call is explored twice.
NextSiblingOrBreak ==
    (stack # <<>> /\ Len(stack') = Len(stack) /\ stack' # stack) =>
        \/ Top(stack').brk
        \/ Top(stack').i = Top(stack).i + 1

\* C20: aiBestMove(P, d) terminates: the depth goes down by one per level of
\* recursion to the leaf case d = 0, each move of a call is explored at most
\* once, and a call that has been made returns.
C20_Terminates ==
    /\ []DepthDecreases
    /\ [][NextSiblingOrBreak]_vars
    /\ (stack # <<>>) ~> (stack = <<>>)

\* A call of depth 3 on a position with legal moves has returned a move.
C20_Witness ==
    /\ stack = <<>>
    /\ results # <<>>
    /\ results[Len(results)].depth = 3
    /\ results[Len(results)].move # null
    /\ results[Len(results)].entry = chess

\* ------------------------------------------------------------------------
\* The maximizing flag and the side to move (SearchSpec)
\* ------------------------------------------------------------------------
\* In every call in progress the flag says that white is to move in the
\* position the call was entered with.
FlagIsWhiteToMove ==
    \A n \in 1 .. Len(stack) : stack[n].maximizing = (stack[n].entry.turn = "w")

MaxOf(a, b) == IF a > b THEN a ELSE b
MinOf(a, b) == IF a < b THEN a ELSE b

\* A call that takes the score of a child takes it into a maximum where white
\* is to move and into a minimum where black is to move.
WhiteMaxBlackMin ==
    (stack # <<>> /\ ret # <<>> /\ Len(stack') = Len(stack)) =>
        LET f == Top(stack)
            g == Top(stack')
        IN g.best = IF f.entry.turn = "w" THEN MaxOf(f.best, ret[1].score)
                    ELSE MinOf(f.best, ret[1].score)

\* C21: in every call of minimax and at the root the maximizing flag is true
\* exactly when white is to move at that node, so nodes with white to move
\* return the maximum and nodes with black to move the minimum of the scores
\* of the children they explored.
C21_WhiteMaximizes ==
    /\ []FlagIsWhiteToMove
    /\ [][WhiteMaxBlackMin]_vars

\* A search from a position with black to move is two calls deep, and a
\* child's score is about to be taken by a call with white to move.
C21_Witness ==
    /\ Len(stack) >= 2
    /\ ret # <<>>
    /\ stack[1].entry.turn = "b"
    /\ Top(stack).entry.turn = "w"
    /\ Top(stack).i > 1

\* ------------------------------------------------------------------------
\* Clicks in Human-vs-AI mode (Spec)
\* ------------------------------------------------------------------------
\* The colour of the AI's pieces.
AiColor == IF aiPlays = "white" THEN "w" ELSE "b"

\* A square is clicked in Human-vs-AI mode.
ClickInHva == mode = "hva" /\ \E sq \in Squares : onSquareClick(sq)

\* The piece that the move just added to the move log moved.
MovedPiece == chess.board[chess'.history[Len(chess'.history)].move.from]

\* C22: in Human-vs-AI mode a click never changes the position while it is
\* the AI's turn, and a move that a click applies never moves a piece of the
\* AI's colour, whatever was selected before.
C22_ClicksLeaveAiSideAlone ==
    [][ClickInHva =>
          /\ (TurnName(chess) = aiPlays => chess' = chess)
          /\ (chess' # chess =>
                 /\ chess'.history # <<>>
                 /\ MovedPiece.color # AiColor)]_vars

\* In Human-vs-AI mode the last user event has left a move of a piece of the
\* human's colour on the board, and it is the AI's turn.
C22_Witness ==
    /\ mode = "hva"
    /\ aiLog.step = "user"
    /\ chess.history # <<>>
    /\ chess.history[Len(chess.history)].move.from = lastMove.from
    /\ chess.history[Len(chess.history)].move.to = lastMove.to
    /\ chess.board[lastMove.to].color # AiColor
    /\ chess.board[lastMove.to] # NoPiece
    /\ selected = NoSquare
    /\ TurnName(chess) = aiPlays
    /\ tasks # <<>>

\* ------------------------------------------------------------------------
\* The AI task that finds no move (Spec)
\* ------------------------------------------------------------------------
\* C23: when aiBestMove returns to the AI task, its result is null exactly
\* when the position has no legal move, so the fallback moves[0] supplies
\* nothing that aiBestMove did not; and a task that finds no move leaves the
\* position, lastMove, selected, legalMoves and boardKey as they are and ends
\* without an error.
C23_NoMoveNoChange ==
    [][AiTaskApply =>
          LET bestMove == Top(stack).bestMove
          IN /\ (bestMove = null) <=> (Moves(chess) = <<>>)
             /\ BestOrFirst(bestMove, chess) = bestMove
             /\ bestMove = null =>
                   /\ UNCHANGED <<chess, lastMove, selected, legalMoves, boardKey>>
                   /\ aiLog'.step = "idle"]_vars

\* An AI task has found no move in a position without legal moves.
C23_Witness ==
    /\ aiLog.step = "idle"
    /\ stack = <<>>
    /\ Moves(chess) = <<>>

\* ------------------------------------------------------------------------
\* The selection (Spec)
\* ------------------------------------------------------------------------
\* In a rendered state nothing is selected and no square is highlighted, or
\* a piece of the side to move is selected and the highlighted squares are
\* the destinations of its legal moves in the position on the board.
SelectionValid ==
    Rendered =>
        IF selected = NoSquare
        THEN legalMoves = <<>>
        ELSE /\ chess.board[selected] # NoPiece
             /\ chess.board[selected].color = chess.turn
             /\ legalMoves = Destinations(MovesFrom(chess, selected))

\* A callback that leaves another position on the board (a human move, an AI
\* move, Undo, Reset) leaves nothing selected.
PositionChangeClears ==
    (chess' # chess /\ stack' = <<>>) =>
        selected' = NoSquare /\ legalMoves' = <<>>

\* C24: in every state the user sees, legalMoves is empty when nothing is
\* selected, and otherwise the selected square holds a piece of the side to
\* move and legalMoves is the list of destinations of that piece's legal
\* moves; every operation that changes the position clears the selection.
C24_SelectionFollowsPosition ==
    /\ []SelectionValid
    /\ [][PositionChangeClears]_vars

\* After a move has been played a piece with legal moves is selected.
C24_Witness ==
    /\ Rendered
    /\ chess.history # <<>>
    /\ selected # NoSquare
    /\ legalMoves # <<>>

\* ------------------------------------------------------------------------
\* The gameOverInfo memo as a function of the position (InfoSpec)
\* ------------------------------------------------------------------------
MaxInfoPlies == 2

\* The variables no step of InfoSpec touches.
InfoFrame ==
    UNCHANGED <<boardKey, selected, legalMoves, lastMove, mode, aiPlays,
                aiDepth, gameOverInfo, tasks, stack, ret, aiLog, userActive,
                keyLimit>>

\* chess.move(m) for a legal move m, before the position is classified.
InfoMove ==
    /\ results = <<>>
    /\ Len(chess.history) < MaxInfoPlies
    /\ \E i \in 1 .. Len(Moves(chess)) : chess' = MakeMove(chess, Moves(chess)[i])
    /\ UNCHANGED results
    /\ InfoFrame

\* The body of the memo runs on the position.
InfoCall ==
    /\ results = <<>>
    /\ results' = <<[pos |-> chess, info |-> GameOverInfo(chess)]>>
    /\ UNCHANGED chess
    /\ InfoFrame

InfoInit ==
    /\ chess \in SearchInputs
    /\ aiDepth = 2
    /\ tasks = <<>>
    /\ keyLimit = MaxKey
    /\ MountState

InfoNext ==
    \/ InfoMove
    \/ InfoCall

InfoSpec == InfoInit /\ [][InfoNext]_vars

\* The name the outcome of a game-over position p is to be given: checkmate
\* with its winner, then stalemate, repetition and insufficient material.
OutcomeName(p) ==
    IF isCheckmate(p)
    THEN (IF p.turn = "w" THEN "Black wins by checkmate"
          ELSE "White wins by checkmate")
    ELSE IF isStalemate(p) THEN "Stalemate"
    ELSE IF isThreefoldRepetition(p) THEN "Draw by repetition"
    ELSE IF isInsufficientMaterial(p) THEN "Draw by insufficient material"
    ELSE "Game over"

\* C25: for a position in which the game is over by checkmate, stalemate,
\* threefold repetition or insufficient material, the memo yields the name of
\* that outcome: the winner by checkmate, "Stalemate", "Draw by repetition"
\* or "Draw by insufficient material".
C25_OutcomeNamedSpecifically ==
    \A k \in 1 .. Len(results) :
       LET p == results[k].pos
       IN (isCheckmate(p) \/ isStalemate(p) \/ isThreefoldRepetition(p)
             \/ isInsufficientMaterial(p))
          => results[k].info = OutcomeName(p)

====
